---- MODULE Spec2Model ----
(***************************************************************************)
(* Cortex-M0 target (probe/src/target/m0.rs): the debug register codecs,   *)
(* the core register transfer protocol, halt / run / step and the          *)
(* breakpoint unit operations, driven through a Memory Interface whose     *)
(* answers are nondeterministic.                                           *)
(*                                                                         *)
(* A u32 is the set of the positions of its set bits (a subset of 0..31),  *)
(* so that |, &, !, << and >> are exact on all 32 bits.                    *)
(***************************************************************************)
EXTENDS Integers, FiniteSets, Sequences, TLC

(***************************************************************************)
(* u32 arithmetic                                                          *)
(***************************************************************************)
BIT_LEN == 32

Bits == 0 .. (BIT_LEN - 1)

Zero == {}

AllOnes == Bits

\* a literal below 2^16 as a u32
U16(n) == {b \in 0 .. 15 : (n \div (2 ^ b)) % 2 = 1}

BitOr(a, b) == a \cup b

BitAnd(a, b) == a \cap b

BitNot(a) == Bits \ a

\* a << n on u32: the bits shifted past bit 31 are lost
Shl(a, n) == {b + n : b \in {x \in a : x + n < BIT_LEN}}

\* a >> n on u32
Shr(a, n) == {b - n : b \in {x \in a : x >= n}}

\* a + b on u32, bit by bit with the carry
Add(a, b) ==
    LET carry[i \in 0 .. BIT_LEN] ==
            IF i = 0 THEN FALSE
            ELSE \/ (i - 1) \in a /\ (i - 1) \in b
                 \/ (i - 1) \in a /\ carry[i - 1]
                 \/ (i - 1) \in b /\ carry[i - 1]
    IN  {i \in Bits : ((i \in a) # (i \in b)) # carry[i]}

\* a literal given by its two half-words
U32(hi, lo) == BitOr(Shl(U16(hi), 16), U16(lo))

\* a ^ b on u32
BitXor(a, b) == (a \ b) \cup (b \ a)

\* bool as u8 as u32
BoolWord(b) == IF b THEN {0} ELSE {}

(***************************************************************************)
(* bitfield! accessors: BitRange::bit_range / set_bit_range on u32         *)
(***************************************************************************)
FieldMask(msb, lsb) ==
    Shl(Shr(Shl(BitNot(Zero), BIT_LEN - msb - 1), BIT_LEN - msb - 1 + lsb), lsb)

bit_range(w, msb, lsb) ==
    Shr(Shl(w, BIT_LEN - msb - 1), BIT_LEN - msb - 1 + lsb)

set_bit_range(w, msb, lsb, value) ==
    BitOr(BitAnd(w, BitNot(FieldMask(msb, lsb))),
          BitAnd(Shl(value, lsb), FieldMask(msb, lsb)))

bit(w, n) == bit_range(w, n, n) # Zero

set_bit(w, n, b) == set_bit_range(w, n, n, BoolWord(b))

(***************************************************************************)
(* Register addresses                                                      *)
(***************************************************************************)
DHCSR_ADDRESS == U32(\hE000, \hEDF0)

DCRSR_ADDRESS == U32(\hE000, \hEDF4)

DCRDR_ADDRESS == U32(\hE000, \hEDF8)

BP_CTRL_ADDRESS == U32(\hE000, \h2000)

BP_COMPX_ADDRESS == U32(\hE000, \h2008)

(***************************************************************************)
(* Dhcsr: tuple struct Dhcsr(u32)                                          *)
(***************************************************************************)
Dhcsr(value) == <<value>>

Dhcsr_from(value) == Dhcsr(value)

u32_from_Dhcsr(d) == d[1]

s_halt(d) == bit(d[1], 17)

s_regrdy(d) == bit(d[1], 16)

set_c_maskints(d, b) == <<set_bit(d[1], 3, b)>>

\* set_c_step declared two bits wide
set_c_step_wide(d, b) == <<set_bit_range(d[1], 3, 2, BoolWord(b))>>

set_c_step(d, b) == <<set_bit(d[1], 2, b)>>

set_c_halt(d, b) == <<set_bit(d[1], 1, b)>>

set_c_debugen(d, b) == <<set_bit(d[1], 0, b)>>

DBGKEY == \hA05F

\* enable_write toggling the key instead of setting it
enable_write_xor(d) == <<BitXor(d[1], Shl(U16(DBGKEY), 16))>>

enable_write(d) == <<BitOr(d[1], Shl(U16(DBGKEY), 16))>>

(***************************************************************************)
(* Dcrsr, BpCtrl, BpCompx                                                  *)
(***************************************************************************)
Dcrsr(value) == <<value>>

u32_from_Dcrsr(d) == d[1]

set_regwnr(d, b) == <<set_bit(d[1], 16, b)>>

\* set_regsel declared four bits wide
set_regsel_narrow(d, v) == <<set_bit_range(d[1], 3, 0, v)>>

set_regsel(d, v) == <<set_bit_range(d[1], 4, 0, v)>>

BpCtrl(value) == <<value>>

u32_from_BpCtrl(d) == d[1]

numcode(d) == bit_range(d[1], 7, 4)

BpCtrl_set_enable(d, b) == <<set_bit(d[1], 0, b)>>

BpCompx(value) == <<value>>

u32_from_BpCompx(d) == d[1]

set_bp_match(d, v) == <<set_bit_range(d[1], 31, 30, v)>>

\* set_comp without the mask of its field
set_comp_unmasked(d, v) == <<BitOr(d[1], Shl(v, 2))>>

set_comp(d, v) == <<set_bit_range(d[1], 28, 2, v)>>

BpCompx_set_enable(d, b) == <<set_bit(d[1], 0, b)>>

\* CoreRegisterAddress(u8) and its conversion .into()
CoreRegisterAddress(n) == U16(n)

R0 == CoreRegisterAddress(0)

PC == CoreRegisterAddress(15)

(***************************************************************************)
(* The words the operations build before writing them                      *)
(***************************************************************************)
\* read_core_reg asking for a write transfer
read_core_reg_dcrsr_write(addr) ==
    set_regsel(set_regwnr(Dcrsr(Zero), TRUE), addr)

read_core_reg_dcrsr(addr) ==
    set_regsel(set_regwnr(Dcrsr(Zero), FALSE), addr)

write_core_reg_dcrsr(addr) ==
    set_regsel(set_regwnr(Dcrsr(Zero), TRUE), addr)

halt_dhcsr ==
    enable_write(set_c_debugen(set_c_halt(Dhcsr(Zero), TRUE), TRUE))

\* run without the call of enable_write
run_dhcsr_nokey ==
    set_c_debugen(set_c_halt(Dhcsr(Zero), FALSE), FALSE)

run_dhcsr ==
    enable_write(set_c_debugen(set_c_halt(Dhcsr(Zero), FALSE), FALSE))

\* step without set_c_maskints
step_dhcsr_nomaskints ==
    enable_write(set_c_debugen(set_c_halt(
        set_c_step(Dhcsr(Zero), TRUE), FALSE), TRUE))

step_dhcsr ==
    enable_write(set_c_maskints(set_c_debugen(set_c_halt(
        set_c_step(Dhcsr(Zero), TRUE), FALSE), TRUE), TRUE))

enable_breakpoints_value(state) ==
    BpCtrl_set_enable(BpCtrl(Zero), state)

set_breakpoint_value(addr) ==
    BpCompx_set_enable(
        set_comp(set_bp_match(BpCompx(Zero), U16(3)),
                 BitOr(Shr(addr, 2), U32(\h00FF, \hFFFF))),
        TRUE)

(***************************************************************************)
(* get_flash_algorithm: the descriptor of the flash algorithm              *)
(***************************************************************************)
Some(x) == <<x>>

FLASH_LOAD_ADDRESS == U32(\h2000, \h0000)

flash_instructions ==
    <<
        U32(\hE00A, \hBE00), U32(\h062D, \h780D), U32(\h2408, \h4068), U32(\hD300, \h0040),
        U32(\h1E64, \h4058), U32(\h1C49, \hD1FA), U32(\h2A00, \h1E52), U32(\h4770, \hD1F2),
        U32(\h0300, \h4601), U32(\h2820, \h0E00), U32(\h0940, \hD302), U32(\hE005, \h1D00),
        U32(\hD302, \h2810), U32(\h1CC0, \h0900), U32(\h0880, \hE000), U32(\hD501, \h02C9),
        U32(\h4308, \h2110), U32(\h4842, \h4770), U32(\h6041, \h4940), U32(\h6041, \h4941),
        U32(\h6001, \h2100), U32(\h22F0, \h68C1), U32(\h60C1, \h4311), U32(\h0680, \h6940),
        U32(\h483E, \hD406), U32(\h6001, \h493C), U32(\h6041, \h2106), U32(\h6081, \h493C),
        U32(\h4770, \h2000), U32(\h6901, \h4836), U32(\h4311, \h0542), U32(\h2000, \h6101),
        U32(\hB510, \h4770), U32(\h6901, \h4832), U32(\h4321, \h2404), U32(\h6901, \h6101),
        U32(\h4311, \h03A2), U32(\h4933, \h6101), U32(\hE000, \h4A30), U32(\h68C3, \h6011),
        U32(\hD4FB, \h03DB), U32(\h43A1, \h6901), U32(\h2000, \h6101), U32(\hB530, \hBD10),
        U32(\hFFB6, \hF7FF), U32(\h68CA, \h4926), U32(\h431A, \h23F0), U32(\h2402, \h60CA),
        U32(\h690A, \h610C), U32(\h0E00, \h06C0), U32(\h610A, \h4302), U32(\h03E2, \h6908),
        U32(\h6108, \h4310), U32(\h4A21, \h4823), U32(\h6010, \hE000), U32(\h03ED, \h68CD),
        U32(\h6908, \hD4FB), U32(\h6108, \h43A0), U32(\h0600, \h68C8), U32(\hD003, \h0F00),
        U32(\h4318, \h68C8), U32(\h2001, \h60C8), U32(\hB570, \hBD30), U32(\h1CC9, \h4D14),
        U32(\h68EB, \h0889), U32(\h26F0, \h0089), U32(\h60EB, \h4333), U32(\h612B, \h2300),
        U32(\hE017, \h4B15), U32(\h431C, \h692C), U32(\h6814, \h612C), U32(\h68EC, \h6004),
        U32(\hD4FC, \h03E4), U32(\h0864, \h692C), U32(\h612C, \h0064), U32(\h0624, \h68EC),
        U32(\hD004, \h0F24), U32(\h4330, \h68E8), U32(\h2001, \h60E8), U32(\h1D00, \hBD70),
        U32(\h1F09, \h1D12), U32(\hD1E5, \h2900), U32(\hBD70, \h2000), U32(\h4567, \h0123),
        U32(\h4002, \h3C00), U32(\hCDEF, \h89AB), U32(\h0000, \h5555), U32(\h4000, \h3000),
        U32(\h0000, \h0FFF), U32(\h0000, \hAAAA), U32(\h0000, \h0201), U32(\h0000, \h0000)
    >>

\* the stack placed on the last byte of its region
flash_begin_stack_last_byte == Add(U32(\h2000, \h0000), U16(\h07FF))

flash_begin_stack == Add(U32(\h2000, \h0000), U16(\h0800))

flash_static_base == Add(Add(U32(\h2000, \h0000), U16(\h0020)), U16(\h014C))

FlashAlgorithm ==
    [load_address |-> FLASH_LOAD_ADDRESS,
     instructions |-> flash_instructions,
     pc_init |-> Some(U32(\h2000, \h0047)),
     pc_uninit |-> Some(U32(\h2000, \h0075)),
     pc_program_page |-> U32(\h2000, \h00FB),
     pc_erase_sector |-> U32(\h2000, \h00AF),
     pc_erase_all |-> Some(U32(\h2000, \h0083)),
     static_base |-> flash_static_base,
     begin_stack |-> flash_begin_stack,
     begin_data |-> U32(\h2000, \h2000),
     page_buffers |-> <<U32(\h2000, \h3000), U32(\h2000, \h4000)>>,
     min_program_length |-> U16(2),
     analyzer_supported |-> TRUE,
     analyzer_address |-> U32(\h2000, \h2000)]

(***************************************************************************)
(* The loops of the two waits: the outcome of one iteration, given the     *)
(* number n of iterations already done and the answer r of read32          *)
(***************************************************************************)
REGRDY_POLLS == 100

HALTED_POLLS == 100

\* the halted wait testing the register-ready bit
wait_for_core_halted_iter_regrdy(n, r) ==
    IF ~r.ok THEN "Transport"
    ELSE IF s_regrdy(Dhcsr(r.val)) THEN "Ok"
    ELSE IF n + 1 < HALTED_POLLS THEN "Loop"
    ELSE "Timeout"

\* the loop running over 0..=100
wait_for_core_register_transfer_iter_offbyone(n, r) ==
    IF ~r.ok THEN "Transport"
    ELSE IF s_regrdy(Dhcsr(r.val)) THEN "Ok"
    ELSE IF n + 1 <= REGRDY_POLLS THEN "Loop"
    ELSE "Timeout"

\* the loop falling through to Ok(()) when it is exhausted
wait_for_core_register_transfer_iter_fallthrough(n, r) ==
    IF ~r.ok THEN "Transport"
    ELSE IF s_regrdy(Dhcsr(r.val)) THEN "Ok"
    ELSE IF n + 1 < REGRDY_POLLS THEN "Loop"
    ELSE "Ok"

wait_for_core_register_transfer_iter(n, r) ==
    IF ~r.ok THEN "Transport"
    ELSE IF s_regrdy(Dhcsr(r.val)) THEN "Ok"
    ELSE IF n + 1 < REGRDY_POLLS THEN "Loop"
    ELSE "Timeout"

wait_for_core_halted_iter(n, r) ==
    IF ~r.ok THEN "Transport"
    ELSE IF s_halt(Dhcsr(r.val)) THEN "Ok"
    ELSE IF n + 1 < HALTED_POLLS THEN "Loop"
    ELSE "Timeout"

CpuInformation(pc_value) == [pc |-> pc_value]

(***************************************************************************)
(* Bounds and the inputs the environment draws from                        *)
(***************************************************************************)
\* halt / run / step calls a debug session makes before it is closed
MaxCalls == 3

\* steps of the register codec exercised on one word
MaxCodecSteps == 2

\* core registers passed to read_core_reg / write_core_reg
RegSamples == {R0, PC, CoreRegisterAddress(31)}

\* values written to and read from the Register-Data Register
DataSamples == {U32(\h2000, \h0047), AllOnes}

\* words the Status/Control Register answers a poll with
DhcsrSamples == SUBSET {16, 17}

\* words the Breakpoint Control Register answers with
BpCtrlSamples == {Zero, U16(\h0040), U16(\h0043), U16(\h00F0), AllOnes}

\* breakpoint addresses
AddrSamples == {Zero, AllOnes, U32(\h0800, \h1004), U16(\h0003),
                U32(\hE000, \h0000), U32(\h1400, \h0008)}

\* bit positions the words of the codec runs are made of
CodecBits == {0, 1, 2, 3, 4, 15, 16, 30, 31}

Ops == {"read_core_reg", "write_core_reg", "halt", "run", "step",
        "get_available_breakpoint_units", "enable_breakpoints",
        "set_breakpoint", "enable_breakpoint", "disable_breakpoint",
        "get_flash_algorithm"}

ExecOps == {"halt", "run", "step"}

(***************************************************************************)
(* State                                                                   *)
(***************************************************************************)
VARIABLES
    op,          \* the Target operation in progress, or last completed
    pc,          \* its position: the next Memory Interface access
    args,        \* its arguments: addr, value, state
    polls,       \* iterations done by the wait loop in progress
    dhcsr_val,   \* the word the last poll read
    result,      \* get_available_breakpoint_units: the word read
    res,         \* what the completed operation returned
    log,         \* Memory Interface accesses issued by this operation
    calls,       \* halt / run / step calls that returned Ok in this session, in order
    dhcsrWrites, \* words written to the Status/Control Register in this session
    codec_in,    \* register codec run: the u32 it starts from
    codec_reg,   \* register codec run: the Dhcsr value
    codec_trace, \* register codec run: the transforms applied
    codec_out,   \* register codec run: the u32 it was converted back to
    link_excl,   \* shared link: the clients take the Memory Interface in turn
    link_tx,     \* shared link: the register transaction of each client
    link_hw      \* shared link: the register selected and the CPU registers

vars == <<op, pc, args, polls, dhcsr_val, result, res, log, calls,
          dhcsrWrites, codec_in, codec_reg, codec_trace, codec_out,
          link_excl, link_tx, link_hw>>

targetVars == <<op, pc, args, polls, dhcsr_val, result, res, log, calls,
                dhcsrWrites>>

codecVars == <<codec_in, codec_reg, codec_trace, codec_out>>

linkVars == <<link_excl, link_tx, link_hw>>

NoArgs == [addr |-> Zero, value |-> Zero, state |-> FALSE]

NoRes == [kind |-> "None", val |-> Zero]

(***************************************************************************)
(* Memory Interface: read32 / write32 answer with a value or fail          *)
(***************************************************************************)
Access(kind, addr, val, ok) ==
    [kind |-> kind, addr |-> addr, val |-> val, ok |-> ok]

ReadAnswers(samples) ==
    {[ok |-> TRUE, val |-> w] : w \in samples} \cup {[ok |-> FALSE, val |-> Zero]}

MIWrite(addr, val, ok) ==
    /\ log' = Append(log, Access("write", addr, val, ok))
    /\ dhcsrWrites' = IF addr = DHCSR_ADDRESS
                      THEN Append(dhcsrWrites, val)
                      ELSE dhcsrWrites

MIRead(addr, r) ==
    /\ log' = Append(log, Access("read", addr, r.val, r.ok))
    /\ dhcsrWrites' = dhcsrWrites

\* the reads of one wait loop are logged as one entry
MIPoll(r) ==
    /\ log' = IF polls = 0
              THEN Append(log, Access("poll", DHCSR_ADDRESS, Zero, r.ok))
              ELSE [log EXCEPT ![Len(log)].ok = r.ok]
    /\ dhcsrWrites' = dhcsrWrites

(***************************************************************************)
(* Results                                                                 *)
(***************************************************************************)
Ok(v) == [kind |-> "Ok", val |-> v]

Unit == <<>>

Timeout == [kind |-> "Timeout", val |-> Zero]

Transport == [kind |-> "Transport", val |-> Zero]

Panic == [kind |-> "Panic", val |-> Zero]

Return(r) ==
    /\ pc' = "done"
    /\ res' = r
    /\ calls' = IF r.kind = "Ok" /\ op \in ExecOps THEN Append(calls, op) ELSE calls

Goto(l) ==
    /\ pc' = l
    /\ res' = NoRes
    /\ calls' = calls

(***************************************************************************)
(* Initial state and the calls of the client                               *)
(***************************************************************************)
TargetInit ==
    /\ op = "none"
    /\ pc = "idle"
    /\ args = NoArgs
    /\ polls = 0
    /\ dhcsr_val = Zero
    /\ result = Zero
    /\ res = NoRes
    /\ log = <<>>
    /\ calls = <<>>
    /\ dhcsrWrites = <<>>

CodecIdle ==
    /\ codec_in = Zero
    /\ codec_reg = Dhcsr(Zero)
    /\ codec_trace = <<>>
    /\ codec_out = <<>>

Clients == {1, 2}

\* what each CPU register holds before any transfer
RegInit(r) == BitOr(U32(\hC0DE, \h0000), Shl(r, 8))

LinkHwInit == [sel |-> R0, regs |-> [r \in RegSamples |-> RegInit(r)]]

LinkIdle ==
    /\ link_excl = TRUE
    /\ link_tx = [c \in Clients |->
                    [kind |-> "read", addr |-> R0, value |-> Zero, pc |-> "done",
                     res |-> NoRes, hit |-> {}]]
    /\ link_hw = LinkHwInit

Init == TargetInit /\ CodecIdle /\ LinkIdle

\* the client calls the next operation once the previous one returned Ok
CanCall ==
    /\ pc \in {"idle", "done"}
    /\ res.kind \in {"None", "Ok"}
    /\ Len(calls) < MaxCalls

Call(o, a, first) ==
    /\ CanCall
    /\ op' = o
    /\ args' = a
    /\ pc' = first
    /\ polls' = 0
    /\ dhcsr_val' = Zero
    /\ result' = Zero
    /\ res' = NoRes
    /\ log' = <<>>
    /\ UNCHANGED <<calls, dhcsrWrites, codecVars, linkVars>>

\* the client closes the session and opens a new one
NewSession ==
    /\ pc = "done"
    /\ op' = "none"
    /\ pc' = "idle"
    /\ args' = NoArgs
    /\ polls' = 0
    /\ dhcsr_val' = Zero
    /\ result' = Zero
    /\ res' = NoRes
    /\ log' = <<>>
    /\ calls' = <<>>
    /\ dhcsrWrites' = <<>>
    /\ UNCHANGED <<codecVars, linkVars>>

(***************************************************************************)
(* wait_for_core_register_transfer, wait_for_core_halted                   *)
(***************************************************************************)
wait_for_core_register_transfer ==
    /\ pc \in {"rcr_wait", "wcr_wait_select", "wcr_wait_data", "gbu_wait"}
    /\ \E r \in ReadAnswers(DhcsrSamples) :
        LET out == wait_for_core_register_transfer_iter(polls, r) IN
        /\ MIPoll(r)
        /\ polls' = polls + 1
        /\ dhcsr_val' = IF r.ok THEN r.val ELSE dhcsr_val
        /\ CASE out = "Loop" -> Goto(pc)
             [] out = "Timeout" -> Return(Timeout)
             [] out = "Transport" -> Return(Transport)
             [] out = "Ok" /\ pc = "rcr_wait" -> Goto("rcr_data")
             [] out = "Ok" /\ pc = "wcr_wait_select" -> Goto("wcr_data")
             [] out = "Ok" /\ pc = "wcr_wait_data" -> Return(Ok(Unit))
             [] out = "Ok" /\ pc = "gbu_wait" -> Return(Ok(result))
    /\ UNCHANGED <<op, args, result, codecVars, linkVars>>

wait_for_core_halted ==
    /\ pc \in {"step_wait", "ebp_wait", "sbp_wait"}
    /\ \E r \in ReadAnswers(DhcsrSamples) :
        LET out == wait_for_core_halted_iter(polls, r) IN
        /\ MIPoll(r)
        /\ polls' = polls + 1
        /\ dhcsr_val' = IF r.ok THEN r.val ELSE dhcsr_val
        /\ args' = IF out = "Ok" /\ pc = "step_wait"
                   THEN [args EXCEPT !.addr = PC]
                   ELSE args
        /\ CASE out = "Loop" -> Goto(pc)
             [] out = "Timeout" -> Return(Timeout)
             [] out = "Transport" -> Return(Transport)
             [] out = "Ok" /\ pc = "step_wait" -> Goto("rcr_select")
             [] out = "Ok" /\ pc \in {"ebp_wait", "sbp_wait"} -> Return(Ok(Unit))
    /\ UNCHANGED <<op, result, codecVars, linkVars>>

(***************************************************************************)
(* read_core_reg                                                           *)
(***************************************************************************)
read_core_reg(addr) ==
    Call("read_core_reg", [NoArgs EXCEPT !.addr = addr], "rcr_select")

read_core_reg_select ==
    /\ pc = "rcr_select"
    /\ \E ok \in BOOLEAN :
        /\ MIWrite(DCRSR_ADDRESS, u32_from_Dcrsr(read_core_reg_dcrsr(args.addr)), ok)
        /\ IF ok THEN Goto("rcr_wait") ELSE Return(Transport)
    /\ polls' = 0
    /\ UNCHANGED <<op, args, dhcsr_val, result, codecVars, linkVars>>

read_core_reg_data ==
    /\ pc = "rcr_data"
    /\ \E r \in ReadAnswers(DataSamples) :
        /\ MIRead(DCRDR_ADDRESS, r)
        /\ IF ~r.ok THEN Return(Transport)
           ELSE IF op = "read_core_reg" THEN Return(Ok(r.val))
           ELSE Return(Ok(CpuInformation(r.val)))
    /\ UNCHANGED <<op, args, polls, dhcsr_val, result, codecVars, linkVars>>

(***************************************************************************)
(* write_core_reg                                                          *)
(***************************************************************************)
write_core_reg(addr, value) ==
    Call("write_core_reg", [NoArgs EXCEPT !.addr = addr, !.value = value],
         "wcr_select")

write_core_reg_select ==
    /\ pc = "wcr_select"
    /\ \E ok \in BOOLEAN :
        /\ MIWrite(DCRSR_ADDRESS, u32_from_Dcrsr(write_core_reg_dcrsr(args.addr)), ok)
        /\ IF ok THEN Goto("wcr_wait_select") ELSE Return(Transport)
    /\ polls' = 0
    /\ UNCHANGED <<op, args, dhcsr_val, result, codecVars, linkVars>>

\* the result of the data write dropped instead of returned with ?
write_core_reg_data_ignore_error ==
    /\ pc = "wcr_data"
    /\ \E ok \in BOOLEAN :
        /\ MIWrite(DCRDR_ADDRESS, args.value, ok)
        /\ Goto("wcr_wait_data")
    /\ polls' = 0
    /\ UNCHANGED <<op, args, dhcsr_val, result, codecVars, linkVars>>

\* the value written to the Register-Select Register
write_core_reg_data_wrong_register ==
    /\ pc = "wcr_data"
    /\ \E ok \in BOOLEAN :
        /\ MIWrite(DCRSR_ADDRESS, args.value, ok)
        /\ IF ok THEN Goto("wcr_wait_data") ELSE Return(Transport)
    /\ polls' = 0
    /\ UNCHANGED <<op, args, dhcsr_val, result, codecVars, linkVars>>

write_core_reg_data ==
    /\ pc = "wcr_data"
    /\ \E ok \in BOOLEAN :
        /\ MIWrite(DCRDR_ADDRESS, args.value, ok)
        /\ IF ok THEN Goto("wcr_wait_data") ELSE Return(Transport)
    /\ polls' = 0
    /\ UNCHANGED <<op, args, dhcsr_val, result, codecVars, linkVars>>

(***************************************************************************)
(* get_flash_algorithm                                                     *)
(***************************************************************************)
get_flash_algorithm == Call("get_flash_algorithm", NoArgs, "gfa_return")

get_flash_algorithm_return ==
    /\ pc = "gfa_return"
    /\ Return(Ok(FlashAlgorithm))
    /\ UNCHANGED <<op, args, polls, dhcsr_val, result, log, dhcsrWrites, codecVars, linkVars>>

(***************************************************************************)
(* halt, run, step                                                         *)
(***************************************************************************)
halt == Call("halt", NoArgs, "halt_write")

\* halt waiting for the halted state before it reads PC
halt_write_waits ==
    /\ pc = "halt_write"
    /\ \E ok \in BOOLEAN :
        /\ MIWrite(DHCSR_ADDRESS, u32_from_Dhcsr(halt_dhcsr), ok)
        /\ IF ok THEN Goto("step_wait") ELSE Return(Transport)
    /\ args' = [args EXCEPT !.addr = PC]
    /\ UNCHANGED <<op, polls, dhcsr_val, result, codecVars, linkVars>>

halt_write ==
    /\ pc = "halt_write"
    /\ \E ok \in BOOLEAN :
        /\ MIWrite(DHCSR_ADDRESS, u32_from_Dhcsr(halt_dhcsr), ok)
        /\ IF ok THEN Goto("rcr_select") ELSE Return(Transport)
    /\ args' = [args EXCEPT !.addr = PC]
    /\ UNCHANGED <<op, polls, dhcsr_val, result, codecVars, linkVars>>

run == Call("run", NoArgs, "run_write")

run_write ==
    /\ pc = "run_write"
    /\ \E ok \in BOOLEAN :
        /\ MIWrite(DHCSR_ADDRESS, u32_from_Dhcsr(run_dhcsr), ok)
        /\ IF ok THEN Return(Ok(Unit)) ELSE Return(Transport)
    /\ UNCHANGED <<op, args, polls, dhcsr_val, result, codecVars, linkVars>>

step == Call("step", NoArgs, "step_write")

\* step reading PC without waiting for the halted state
step_write_nowait ==
    /\ pc = "step_write"
    /\ \E ok \in BOOLEAN :
        /\ MIWrite(DHCSR_ADDRESS, u32_from_Dhcsr(step_dhcsr), ok)
        /\ IF ok THEN Goto("rcr_select") ELSE Return(Transport)
    /\ polls' = 0
    /\ args' = [args EXCEPT !.addr = PC]
    /\ UNCHANGED <<op, dhcsr_val, result, codecVars, linkVars>>

step_write ==
    /\ pc = "step_write"
    /\ \E ok \in BOOLEAN :
        /\ MIWrite(DHCSR_ADDRESS, u32_from_Dhcsr(step_dhcsr), ok)
        /\ IF ok THEN Goto("step_wait") ELSE Return(Transport)
    /\ polls' = 0
    /\ UNCHANGED <<op, args, dhcsr_val, result, codecVars, linkVars>>

(***************************************************************************)
(* Breakpoint unit                                                         *)
(***************************************************************************)
get_available_breakpoint_units ==
    Call("get_available_breakpoint_units", NoArgs, "gbu_read")

get_available_breakpoint_units_read ==
    /\ pc = "gbu_read"
    /\ \E r \in ReadAnswers(BpCtrlSamples) :
        /\ MIRead(BP_CTRL_ADDRESS, r)
        /\ result' = r.val
        /\ IF r.ok THEN Goto("gbu_wait") ELSE Return(Transport)
    /\ polls' = 0
    /\ UNCHANGED <<op, args, dhcsr_val, codecVars, linkVars>>

enable_breakpoints(state) ==
    Call("enable_breakpoints", [NoArgs EXCEPT !.state = state], "ebp_write")

\* enable_breakpoints returning without the wait for the halted state
enable_breakpoints_write_nowait ==
    /\ pc = "ebp_write"
    /\ \E ok \in BOOLEAN :
        /\ MIWrite(BP_CTRL_ADDRESS, u32_from_BpCtrl(enable_breakpoints_value(args.state)), ok)
        /\ IF ok THEN Return(Ok(Unit)) ELSE Return(Transport)
    /\ polls' = 0
    /\ UNCHANGED <<op, args, dhcsr_val, result, codecVars, linkVars>>

enable_breakpoints_write ==
    /\ pc = "ebp_write"
    /\ \E ok \in BOOLEAN :
        /\ MIWrite(BP_CTRL_ADDRESS, u32_from_BpCtrl(enable_breakpoints_value(args.state)), ok)
        /\ IF ok THEN Goto("ebp_wait") ELSE Return(Transport)
    /\ polls' = 0
    /\ UNCHANGED <<op, args, dhcsr_val, result, codecVars, linkVars>>

set_breakpoint(addr) ==
    Call("set_breakpoint", [NoArgs EXCEPT !.addr = addr], "sbp_write")

set_breakpoint_write ==
    /\ pc = "sbp_write"
    /\ \E ok \in BOOLEAN :
        /\ MIWrite(BP_CTRL_ADDRESS, u32_from_BpCompx(set_breakpoint_value(args.addr)), ok)
        /\ IF ok THEN Goto("sbp_wait") ELSE Return(Transport)
    /\ polls' = 0
    /\ UNCHANGED <<op, args, dhcsr_val, result, codecVars, linkVars>>

enable_breakpoint(addr) ==
    Call("enable_breakpoint", [NoArgs EXCEPT !.addr = addr], "unimplemented")

disable_breakpoint(addr) ==
    Call("disable_breakpoint", [NoArgs EXCEPT !.addr = addr], "unimplemented")

\* the unimplemented operations returning Ok(()) without doing anything
unimplemented_noop ==
    /\ pc = "unimplemented"
    /\ Return(Ok(Unit))
    /\ UNCHANGED <<op, args, polls, dhcsr_val, result, log, dhcsrWrites, codecVars, linkVars>>

unimplemented ==
    /\ pc = "unimplemented"
    /\ Return(Panic)
    /\ UNCHANGED <<op, args, polls, dhcsr_val, result, log, dhcsrWrites, codecVars, linkVars>>

(***************************************************************************)
(* The target driven by a client, one operation at a time                  *)
(***************************************************************************)
Next ==
    \/ \E addr \in RegSamples : read_core_reg(addr)
    \/ read_core_reg_select
    \/ read_core_reg_data
    \/ \E addr \in RegSamples, value \in DataSamples : write_core_reg(addr, value)
    \/ write_core_reg_select
    \/ write_core_reg_data
    \/ wait_for_core_register_transfer
    \/ wait_for_core_halted
    \/ halt
    \/ halt_write
    \/ run
    \/ run_write
    \/ step
    \/ step_write
    \/ get_available_breakpoint_units
    \/ get_available_breakpoint_units_read
    \/ \E state \in BOOLEAN : enable_breakpoints(state)
    \/ enable_breakpoints_write
    \/ \E addr \in AddrSamples : set_breakpoint(addr)
    \/ set_breakpoint_write
    \/ \E addr \in AddrSamples : enable_breakpoint(addr)
    \/ \E addr \in AddrSamples : disable_breakpoint(addr)
    \/ unimplemented
    \/ get_flash_algorithm
    \/ get_flash_algorithm_return
    \/ NewSession

Spec == Init /\ [][Next]_vars

(***************************************************************************)
(* The register codec on its own: a word is converted to a Dhcsr, setters  *)
(* and enable_write are applied, and the value is converted back           *)
(***************************************************************************)
CodecWords == SUBSET CodecBits

CodecInit ==
    /\ TargetInit
    /\ codec_in \in CodecWords
    /\ codec_reg = <<>>
    /\ codec_trace = <<>>
    /\ codec_out = <<>>
    /\ LinkIdle

Codec_from ==
    /\ codec_reg = <<>>
    /\ codec_reg' = Dhcsr_from(codec_in)
    /\ UNCHANGED <<codec_in, codec_trace, codec_out, targetVars, linkVars>>

CodecApply(fn, arg, after) ==
    /\ codec_reg # <<>>
    /\ codec_out = <<>>
    /\ Len(codec_trace) < MaxCodecSteps
    /\ codec_reg' = after
    /\ codec_trace' = Append(codec_trace,
           [fn |-> fn, arg |-> arg, before |-> codec_reg, after |-> after])
    /\ UNCHANGED <<codec_in, codec_out, targetVars, linkVars>>

Codec_set_c_maskints(b) ==
    CodecApply("set_c_maskints", b, set_c_maskints(codec_reg, b))

Codec_set_c_step(b) ==
    CodecApply("set_c_step", b, set_c_step(codec_reg, b))

Codec_set_c_halt(b) ==
    CodecApply("set_c_halt", b, set_c_halt(codec_reg, b))

Codec_set_c_debugen(b) ==
    CodecApply("set_c_debugen", b, set_c_debugen(codec_reg, b))

Codec_enable_write ==
    CodecApply("enable_write", FALSE, enable_write(codec_reg))

Codec_into ==
    /\ codec_reg # <<>>
    /\ codec_out = <<>>
    /\ codec_out' = <<u32_from_Dhcsr(codec_reg)>>
    /\ UNCHANGED <<codec_in, codec_reg, codec_trace, targetVars, linkVars>>

CodecNext ==
    \/ Codec_from
    \/ \E b \in BOOLEAN : Codec_set_c_maskints(b)
    \/ \E b \in BOOLEAN : Codec_set_c_step(b)
    \/ \E b \in BOOLEAN : Codec_set_c_halt(b)
    \/ \E b \in BOOLEAN : Codec_set_c_debugen(b)
    \/ Codec_enable_write
    \/ Codec_into

SpecCodec == CodecInit /\ [][CodecNext]_vars

(***************************************************************************)
(* Two clients on one debug link. Each runs one read_core_reg or           *)
(* write_core_reg transaction, a step being one register access or wait.   *)
(* The hardware: a write of the Register-Select Register selects the CPU   *)
(* register that the Register-Data Register then refers to.                *)
(***************************************************************************)
Other(c) == 3 - c

\* the value client c writes with write_core_reg
LinkWriteValue(c) == IF c = 1 THEN U32(\h2000, \h0047) ELSE AllOnes

LinkTx(c, kind, addr) ==
    [kind |-> kind, addr |-> addr,
     value |-> IF kind = "write" THEN LinkWriteValue(c) ELSE Zero,
     pc |-> "select", res |-> NoRes, hit |-> {}]

LinkInit ==
    /\ TargetInit
    /\ CodecIdle
    /\ link_excl \in BOOLEAN
    /\ \E k1 \in {"read", "write"}, k2 \in {"read", "write"},
          a1 \in RegSamples, a2 \in RegSamples :
        /\ a1 # a2
        /\ link_tx = [c \in Clients |->
                         IF c = 1 THEN LinkTx(1, k1, a1) ELSE LinkTx(2, k2, a2)]
    /\ link_hw = LinkHwInit

\* the hardware on a write of the Register-Select Register
HwSelect(hw, word) == [hw EXCEPT !.sel = bit_range(word, 4, 0)]

\* the hardware on a read of the Register-Data Register
HwDataRead(hw) == hw.regs[hw.sel]

\* the hardware on a write of the Register-Data Register
HwDataWrite(hw, value) == [hw EXCEPT !.regs[hw.sel] = value]

LinkReturn(c, r) ==
    link_tx' = [link_tx EXCEPT ![c].pc = "done", ![c].res = r]

Link_select(c) ==
    /\ link_tx[c].pc = "select"
    /\ link_excl => link_tx[Other(c)].pc \in {"select", "done"}
    /\ LET tx == link_tx[c]
           word == IF tx.kind = "read"
                   THEN u32_from_Dcrsr(read_core_reg_dcrsr(tx.addr))
                   ELSE u32_from_Dcrsr(write_core_reg_dcrsr(tx.addr))
       IN \E ok \in BOOLEAN :
            IF ok
            THEN /\ link_hw' = HwSelect(link_hw, word)
                 /\ link_tx' = [link_tx EXCEPT ![c].pc = "wait_select"]
            ELSE /\ link_hw' = link_hw
                 /\ LinkReturn(c, Transport)
    /\ UNCHANGED <<link_excl, targetVars, codecVars>>

\* The polls of one wait read only the Status/Control Register, which no
\* transaction writes and which does not move the selection, so the wait is
\* one step: n reads without the ready bit, then the read that ends it.
Link_wait(c) ==
    /\ link_tx[c].pc \in {"wait_select", "wait_data"}
    /\ \E n \in 0 .. (REGRDY_POLLS - 1), r \in ReadAnswers(DhcsrSamples) :
        LET tx == link_tx[c]
            out == wait_for_core_register_transfer_iter(n, r)
        IN /\ out # "Loop"
           /\ CASE out = "Timeout" -> LinkReturn(c, Timeout)
                [] out = "Transport" -> LinkReturn(c, Transport)
                [] out = "Ok" /\ tx.pc = "wait_select" ->
                       link_tx' = [link_tx EXCEPT ![c].pc = "data"]
                [] out = "Ok" /\ tx.pc = "wait_data" ->
                       LinkReturn(c, Ok(Unit))
    /\ UNCHANGED <<link_excl, link_hw, targetVars, codecVars>>

Link_data(c) ==
    /\ link_tx[c].pc = "data"
    /\ LET tx == link_tx[c] IN
       \E ok \in BOOLEAN :
         IF ~ok
         THEN /\ link_hw' = link_hw
              /\ LinkReturn(c, Transport)
         ELSE IF tx.kind = "read"
         THEN /\ link_hw' = link_hw
              /\ link_tx' = [link_tx EXCEPT ![c].pc = "done",
                                            ![c].res = Ok(HwDataRead(link_hw)),
                                            ![c].hit = {link_hw.sel}]
         ELSE /\ link_hw' = HwDataWrite(link_hw, tx.value)
              /\ link_tx' = [link_tx EXCEPT ![c].pc = "wait_data",
                                            ![c].hit = {link_hw.sel}]
    /\ UNCHANGED <<link_excl, targetVars, codecVars>>

LinkNext ==
    \E c \in Clients :
        \/ Link_select(c)
        \/ Link_wait(c)
        \/ Link_data(c)

SpecLink == LinkInit /\ [][LinkNext]_vars

(***************************************************************************)
(* Properties                                                              *)
(***************************************************************************)
LogWrites == SelectSeq(log, LAMBDA e : e.kind = "write")

LogReads == SelectSeq(log, LAMBDA e : e.kind = "read")

IsWrite(e, a) == e.kind = "write" /\ e.addr = a

IsPoll(e) == e.kind = "poll" /\ e.addr = DHCSR_ADDRESS

LastPollClear ==
    /\ log # <<>>
    /\ IsPoll(log[Len(log)])
    /\ log[Len(log)].ok
    /\ ~ (16 \in dhcsr_val)

LastPollReady ==
    /\ log # <<>>
    /\ IsPoll(log[Len(log)])
    /\ log[Len(log)].ok
    /\ 16 \in dhcsr_val

\* C1: write_core_reg returns Ok exactly when both of its writes went through
\* and each of its two waits saw register-ready within its 100 polls; it has
\* then issued two writes and no more: the select write to 0xE000_EDF4, the
\* polls of the select phase, the write of the value to 0xE000_EDF8, the polls
\* of the completion phase, in this order.
C1_WriteCoreRegSuccess ==
    (op = "write_core_reg" /\ pc = "done") =>
        /\ (res.kind = "Ok") <=> (Len(log) = 4 /\ LastPollReady)
        /\ (res.kind = "Ok") =>
            /\ res.val = Unit
            /\ Len(log) = 4
            /\ \A i \in 1 .. 4 : log[i].ok
            /\ IsWrite(log[1], U32(\hE000, \hEDF4))
            /\ IsPoll(log[2])
            /\ log[3] = Access("write", U32(\hE000, \hEDF8), args.value, TRUE)
            /\ IsPoll(log[4])
            /\ Len(LogWrites) = 2
            /\ polls \in 1 .. 100

C1_Witness ==
    /\ op = "write_core_reg"
    /\ pc = "done"
    /\ res.kind = "Ok"
    /\ args.addr = PC
    /\ args.value = U32(\h2000, \h0047)
    /\ polls = 5
    /\ Len(LogWrites) = 2

\* C2: a register-ready wait never goes past 100 polls; read_core_reg and
\* write_core_reg return Timeout exactly when the 100th poll of a wait still
\* shows register-ready clear, and then the failing poll is the last access:
\* no write follows it, read_core_reg has not read the Register-Data Register,
\* and a timeout of the select phase leaves the Register-Data Register unwritten.
C2_RegisterTransferTimeout ==
    /\ (pc \in {"rcr_wait", "wcr_wait_select", "wcr_wait_data", "gbu_wait"}) =>
           polls < 100
    /\ (op \in {"read_core_reg", "write_core_reg"} /\ pc = "done") =>
        /\ (res.kind = "Timeout") <=> (polls = 100 /\ LastPollClear)
        /\ (res.kind = "Timeout") =>
            /\ IsPoll(log[Len(log)])
            /\ Len(LogReads) = 0
            /\ Len(log) \in {2, 4}
            /\ (Len(log) = 2) =>
                   /\ Len(LogWrites) = 1
                   /\ IsWrite(log[1], DCRSR_ADDRESS)
            /\ (op = "read_core_reg") => Len(log) = 2

C2_Witness ==
    /\ op = "write_core_reg"
    /\ pc = "done"
    /\ res.kind = "Timeout"
    /\ Len(log) = 2
    /\ polls = 100

\* C3: when write_core_reg has written the value to the Register-Data Register
\* and the completion wait then reads register-ready clear 100 times, it
\* returns Timeout, not Ok, with the data write already issued.
C3_WriteCoreRegPartialFailure ==
    (/\ op = "write_core_reg"
     /\ pc = "done"
     /\ Len(log) = 4
     /\ polls = 100
     /\ LastPollClear) =>
        /\ res.kind = "Timeout"
        /\ log[3] = Access("write", DCRDR_ADDRESS, args.value, TRUE)

C3_Witness ==
    /\ op = "write_core_reg"
    /\ pc = "done"
    /\ Len(log) = 4
    /\ polls = 100
    /\ LastPollClear
    /\ res.kind = "Timeout"

\* C4: in a session whose first halt / run / step calls were halt, step, run,
\* each returning Ok, the first words written to the Status/Control Register
\* are 0xA05F_0003, 0xA05F_000D, 0xA05F_0000, in this order, and when run
\* returns these three are all the words written to it.
C4_HaltStepRunWrites ==
    (Len(calls) >= 3 /\ SubSeq(calls, 1, 3) = <<"halt", "step", "run">>) =>
        /\ Len(dhcsrWrites) >= 3
        /\ SubSeq(dhcsrWrites, 1, 3) =
               <<U32(\hA05F, \h0003), U32(\hA05F, \h000D), U32(\hA05F, \h0000)>>
        /\ (Len(calls) = 3 /\ op = "run" /\ pc = "done" /\ res.kind = "Ok") =>
               Len(dhcsrWrites) = 3

C4_Witness ==
    /\ calls = <<"halt", "step", "run">>
    /\ op = "run"
    /\ pc = "done"
    /\ res.kind = "Ok"
    /\ Len(dhcsrWrites) = 3

\* C5: every word written to the Status/Control Register 0xE000_EDF0, by any
\* operation of any session, has 0xA05F in bits 31:16.
C5_DhcsrWritesCarryKey ==
    /\ \A i \in DOMAIN log :
           IsWrite(log[i], U32(\hE000, \hEDF0)) => Shr(log[i].val, 16) = U16(\hA05F)
    /\ \A i \in DOMAIN dhcsrWrites : Shr(dhcsrWrites[i], 16) = U16(\hA05F)

C5_Witness ==
    /\ op = "run"
    /\ pc = "done"
    /\ Len(calls) = 2
    /\ Len(dhcsrWrites) = 2
    /\ Len(LogWrites) = 1
    /\ IsWrite(log[1], DHCSR_ADDRESS)

\* C6: when get_available_breakpoint_units returns Ok, the value returned is
\* the comparator count of the word read from the Breakpoint Control Register:
\* its bits 7:4 as a number.
C6_BreakpointUnitsIsCount ==
    (op = "get_available_breakpoint_units" /\ pc = "done" /\ res.kind = "Ok") =>
        res.val = numcode(BpCtrl(log[1].val))

\* C7: set_breakpoint issues one write, whose word has 0b11 in bits 31:30 and
\* 1 in bit 0, and whose bits 29 and 1 are clear: nothing of the address
\* reaches bits 31:29 or bits 1:0.
C7_SetBreakpointModeAndEnable ==
    (op = "set_breakpoint" /\ pc # "sbp_write") =>
        /\ Len(LogWrites) = 1
        /\ LET w == LogWrites[1].val IN
            /\ bit_range(w, 31, 30) = U16(3)
            /\ 0 \in w
            /\ ~ (29 \in w)
            /\ ~ (1 \in w)

C7_Witness ==
    /\ op = "set_breakpoint"
    /\ pc = "done"
    /\ res.kind = "Ok"
    /\ args.addr = U32(\h0800, \h1004)
    /\ Len(LogWrites) = 1
    /\ LogWrites[1].ok

\* C8: bits 28:2 of the word set_breakpoint writes are bits 28:2 of the
\* address it was given.
C8_SetBreakpointStoresAddress ==
    (op = "set_breakpoint" /\ pc = "done" /\ res.kind = "Ok") =>
        /\ Len(LogWrites) = 1
        /\ BitAnd(LogWrites[1].val, U32(\h1FFF, \hFFFC))
               = BitAnd(args.addr, U32(\h1FFF, \hFFFC))

CodecSetterBit(fn) ==
    CASE fn = "set_c_maskints" -> {3}
      [] fn = "set_c_step" -> {2}
      [] fn = "set_c_halt" -> {1}
      [] fn = "set_c_debugen" -> {0}
      [] OTHER -> {}

LowHalf(w) == BitAnd(w, U16(\hFFFF))

\* C9: enable_write leaves bits 15:0 as they were and sets every bit of
\* 0xA05F in bits 31:16; applied to its own result it changes nothing.
C9_EnableWriteIdempotent ==
    \A i \in DOMAIN codec_trace :
        (codec_trace[i].fn = "enable_write") =>
            LET b == codec_trace[i].before[1]
                a == codec_trace[i].after[1]
            IN  /\ Shl(U16(\hA05F), 16) \subseteq a
                /\ LowHalf(a) = LowHalf(b)
                /\ (i > 1 /\ codec_trace[i - 1].fn = "enable_write") => a = b

C9_Witness ==
    /\ Len(codec_trace) = 2
    /\ codec_trace[1].fn = "enable_write"
    /\ codec_trace[2].fn = "enable_write"
    /\ codec_in = {1, 15, 30}
    /\ codec_trace[1].before # codec_trace[1].after

\* C10: a word converted to a Dhcsr and back is the same word; a control
\* setter changes no bit but its own, so that after setters only the word
\* converted back differs from the original in the setters' bits at most.
C10_DhcsrRoundTrip ==
    /\ (codec_out # <<>> /\ codec_trace = <<>>) => codec_out[1] = codec_in
    /\ \A i \in DOMAIN codec_trace :
           (codec_trace[i].fn # "enable_write") =>
               BitXor(codec_trace[i].before[1], codec_trace[i].after[1])
                   \subseteq CodecSetterBit(codec_trace[i].fn)
    /\ (codec_out # <<>> /\ \A i \in DOMAIN codec_trace : codec_trace[i].fn # "enable_write") =>
           BitXor(codec_out[1], codec_in)
               \subseteq UNION {CodecSetterBit(codec_trace[i].fn) : i \in DOMAIN codec_trace}

C10_Witness ==
    /\ codec_in = {0, 3, 16, 31}
    /\ Len(codec_trace) = 2
    /\ codec_trace[1].fn = "set_c_step"
    /\ codec_trace[1].arg
    /\ codec_trace[2].fn = "set_c_debugen"
    /\ ~ codec_trace[2].arg
    /\ codec_out = << {2, 3, 16, 31} >>

\* C11: enable_breakpoint and disable_breakpoint end in the unimplemented
\* failure for every address: they never return Ok, Timeout or a transport
\* error, and they issue no Memory Interface access.
C11_PerBreakpointUnimplemented ==
    (op \in {"enable_breakpoint", "disable_breakpoint"}) =>
        /\ log = <<>>
        /\ polls = 0
        /\ pc \in {"unimplemented", "done"}
        /\ (pc = "done") => res.kind = "Panic"

C11_Witness ==
    /\ op = "disable_breakpoint"
    /\ pc = "done"
    /\ res.kind = "Panic"
    /\ args.addr = U32(\h0800, \h1004)
    /\ log = <<>>

\* C12: in every operation the first Memory Interface access that fails is
\* the last access issued, and the operation ends with that transport error;
\* an operation returns the transport error in no other case. A failed data
\* write of write_core_reg is followed by no poll and a failed poll is not
\* repeated.
C12_TransportFailureEndsOperation ==
    /\ \A i \in DOMAIN log : (~ log[i].ok) => i = Len(log)
    /\ (log # <<>> /\ ~ log[Len(log)].ok) => (pc = "done" /\ res.kind = "Transport")
    /\ (res.kind = "Transport") => (pc = "done" /\ log # <<>> /\ ~ log[Len(log)].ok)

C12_Witness ==
    /\ op = "write_core_reg"
    /\ pc = "done"
    /\ res.kind = "Transport"
    /\ Len(log) = 3
    /\ log[3].kind = "write"
    /\ log[3].addr = DCRDR_ADDRESS
    /\ ~ log[3].ok

Aligned4(w) == ~ (0 \in w) /\ ~ (1 \in w)

FlashEntryPoints(d) ==
    {d.pc_init[1], d.pc_uninit[1], d.pc_program_page, d.pc_erase_sector,
     d.pc_erase_all[1]}

FlashDataAddresses(d) ==
    {d.load_address, d.static_base, d.begin_stack, d.begin_data,
     d.analyzer_address} \cup {d.page_buffers[i] : i \in DOMAIN d.page_buffers}

\* C13 as stated: every address of the descriptor get_flash_algorithm
\* returns, the entry points included, is a multiple of 4.
C13_AllAddressesAligned ==
    (op = "get_flash_algorithm" /\ pc = "done") =>
        \A a \in FlashEntryPoints(res.val) \cup FlashDataAddresses(res.val) :
            Aligned4(a)

\* C13 amended: the load address, static base, initial stack pointer, data
\* address, page-buffer addresses and analyzer base of the descriptor are
\* multiples of 4; the five entry points are odd addresses (Thumb bit set)
\* inside the loaded instructions.
C13_DataAddressesAligned ==
    (op = "get_flash_algorithm" /\ pc = "done") =>
        /\ res.kind = "Ok"
        /\ \A a \in FlashDataAddresses(res.val) : Aligned4(a)
        /\ \A a \in FlashEntryPoints(res.val) :
               /\ 0 \in a
               /\ a \in {Add(res.val.load_address, U16(n)) :
                            n \in 1 .. (4 * Len(res.val.instructions) - 1)}

C13_Witness ==
    /\ op = "get_flash_algorithm"
    /\ pc = "done"
    /\ res.kind = "Ok"
    /\ res.val.static_base = U32(\h2000, \h016C)
    /\ res.val.begin_stack = U32(\h2000, \h0800)
    /\ res.val.pc_init = <<U32(\h2000, \h0047)>>
    /\ log = <<>>

\* C14: read_core_reg writes once, the word r (bit 16 clear, bits 4:0 = r)
\* to 0xE000_EDF4, then polls, and reads the Register-Data Register
\* 0xE000_EDF8 once, only after a poll showed register-ready; it returns the
\* value read. write_core_reg's select word is 0x0001_0000 | r.
C14_ReadCoreRegProtocol ==
    /\ (op = "read_core_reg" /\ pc # "rcr_select") =>
        /\ Len(LogWrites) = 1
        /\ log[1] = Access("write", U32(\hE000, \hEDF4), args.addr, log[1].ok)
        /\ log[1].val \subseteq 0 .. 4
        /\ (Len(log) >= 2) => IsPoll(log[2])
        /\ Len(LogReads) <= 1
        /\ (pc = "rcr_data") => (Len(log) = 2 /\ LastPollReady)
        /\ (Len(LogReads) = 1) =>
            /\ Len(log) = 3
            /\ pc = "done"
            /\ log[2].ok
            /\ 16 \in dhcsr_val
            /\ log[3].kind = "read"
            /\ log[3].addr = U32(\hE000, \hEDF8)
        /\ (pc = "done") => ((res.kind = "Ok") <=> (Len(log) = 3 /\ log[3].ok))
        /\ (res.kind = "Ok") => res.val = log[3].val
    /\ (op = "write_core_reg" /\ pc # "wcr_select") =>
        /\ IsWrite(log[1], U32(\hE000, \hEDF4))
        /\ log[1].val = BitOr(U32(\h0001, \h0000), args.addr)

C14_Witness ==
    /\ op = "read_core_reg"
    /\ pc = "done"
    /\ res = Ok(AllOnes)
    /\ args.addr = CoreRegisterAddress(31)
    /\ polls = 7
    /\ Len(log) = 3

\* C15: step writes the Status/Control Register first and then polls the
\* halted bit; it writes the Register-Select Register, to read PC, only after
\* a poll showed halted. When 100 polls show halted clear it returns Timeout
\* with no write of the Register-Select Register and no read of the
\* Register-Data Register. On success the pc returned is the value read from
\* the Register-Data Register.
C15_StepOrdering ==
    (op = "step" /\ pc # "step_write") =>
        /\ IsWrite(log[1], DHCSR_ADDRESS)
        /\ (Len(log) >= 2) => IsPoll(log[2])
        /\ (Len(log) >= 3) =>
            /\ log[2].ok
            /\ log[3] = Access("write", DCRSR_ADDRESS, PC, log[3].ok)
        /\ (pc = "step_wait") => Len(log) <= 2
        /\ (pc = "rcr_select") => (Len(log) = 2 /\ log[2].ok /\ 17 \in dhcsr_val)
        /\ (pc = "done" /\ Len(log) = 2 /\ log[2].ok) =>
            /\ res.kind = "Timeout"
            /\ polls = 100
            /\ ~ (17 \in dhcsr_val)
        /\ (res.kind = "Timeout" /\ polls = 100 /\ Len(log) = 2) =>
            /\ Len(LogWrites) = 1
            /\ Len(LogReads) = 0
        /\ (res.kind = "Ok") =>
            /\ Len(log) = 5
            /\ log[5].kind = "read"
            /\ log[5].addr = DCRDR_ADDRESS
            /\ res.val = CpuInformation(log[5].val)

C15_Witness ==
    /\ op = "step"
    /\ pc = "done"
    /\ res.kind = "Timeout"
    /\ Len(log) = 2
    /\ polls = 100
    /\ dhcsr_val = {16}

\* C16: halt writes the Status/Control Register and next the Register-Select
\* Register with index 15, with no poll between the two; it then polls
\* register-ready and reads the Register-Data Register, and returns Ok with
\* the pc read whether or not any poll showed the halted bit.
C16_HaltDoesNotWaitForHalted ==
    (op = "halt" /\ pc # "halt_write") =>
        /\ IsWrite(log[1], DHCSR_ADDRESS)
        /\ pc \notin {"step_wait", "ebp_wait", "sbp_wait"}
        /\ (Len(log) >= 2) => log[2] = Access("write", DCRSR_ADDRESS, U16(15), log[2].ok)
        /\ (Len(log) >= 3) => IsPoll(log[3])
        /\ (Len(log) >= 4) =>
            /\ log[4].kind = "read"
            /\ log[4].addr = DCRDR_ADDRESS
            /\ log[3].ok
            /\ 16 \in dhcsr_val
        /\ (pc = "done") => ((res.kind = "Ok") <=> (Len(log) = 4 /\ log[4].ok))
        /\ (res.kind = "Ok") => res.val = CpuInformation(log[4].val)

C16_Witness ==
    /\ op = "halt"
    /\ pc = "done"
    /\ res.kind = "Ok"
    /\ polls = 1
    /\ dhcsr_val = {16}
    /\ Len(log) = 4

\* C17: enable_breakpoints and set_breakpoint each issue one write, to
\* 0xE000_2000 and never to 0xE000_2008, and then poll the halted bit; they
\* return Ok exactly when a poll within the first 100 shows halted, and
\* Timeout after 100 polls without it, the write staying issued.
\* enable_breakpoints writes 1 for state = true and 0 for state = false.
C17_GlobalBreakpointOperations ==
    (op \in {"enable_breakpoints", "set_breakpoint"} /\ pc \notin {"ebp_write", "sbp_write"}) =>
        /\ Len(LogWrites) = 1
        /\ IsWrite(log[1], U32(\hE000, \h2000))
        /\ \A i \in DOMAIN log : log[i].addr # U32(\hE000, \h2008)
        /\ Len(log) <= 2
        /\ (Len(log) = 2) => (log[1].ok /\ IsPoll(log[2]))
        /\ (pc \in {"ebp_wait", "sbp_wait"}) => polls < 100
        /\ (pc = "done") =>
            /\ (res.kind = "Ok") <=>
                   (Len(log) = 2 /\ log[2].ok /\ 17 \in dhcsr_val /\ polls \in 1 .. 100)
            /\ (res.kind = "Timeout") <=>
                   (Len(log) = 2 /\ log[2].ok /\ ~ (17 \in dhcsr_val) /\ polls = 100)
        /\ (op = "enable_breakpoints") =>
               log[1].val = (IF args.state THEN U16(1) ELSE U16(0))

C17_Witness ==
    /\ op = "enable_breakpoints"
    /\ args.state
    /\ pc = "done"
    /\ res.kind = "Timeout"
    /\ Len(LogWrites) = 1
    /\ LogWrites[1].ok
    /\ polls = 100

\* C18: every word enable_breakpoints and set_breakpoint write to the
\* Breakpoint Control Register 0xE000_2000 has the key bit, bit 1, set.
C18_BreakpointControlKeySet ==
    \A i \in DOMAIN log :
        (IsWrite(log[i], U32(\hE000, \h2000)) /\ log[i].ok) => 1 \in log[i].val

RegrdyWaits == {"rcr_wait", "wcr_wait_select", "wcr_wait_data", "gbu_wait"}

HaltedWaits == {"step_wait", "ebp_wait", "sbp_wait"}

\* a step taken inside a wait loop that awaits bit b of the word read
PollStep(waits, b) ==
    (pc \in waits) =>
        /\ polls < 100
        /\ polls' = polls + 1
        /\ Len(log') = (IF polls = 0 THEN Len(log) + 1 ELSE Len(log))
        /\ IsPoll(log'[Len(log')])
        /\ LET ok == log'[Len(log')].ok IN
            /\ (ok /\ b \in dhcsr_val') => (pc' # pc /\ res'.kind \in {"None", "Ok"})
            /\ (ok /\ ~ (b \in dhcsr_val') /\ polls' < 100) => (pc' = pc /\ res' = NoRes)
            /\ (ok /\ ~ (b \in dhcsr_val') /\ polls' = 100) =>
                   (pc' = "done" /\ res'.kind = "Timeout")

\* C19: each iteration of either wait loop reads the Status/Control Register
\* once and decides on the word just read alone: the register-ready wait ends
\* with success on the first read that shows bit 16, the halted wait on the
\* first read that shows bit 17, whatever the other bit and whatever was read
\* before; a read without the awaited bit continues the loop up to the 100th
\* read, which ends the wait with Timeout, so that no wait reads a 101st time.
C19_PollBoundExact ==
    [][PollStep(RegrdyWaits, 16) /\ PollStep(HaltedWaits, 17)]_vars

C19_Witness ==
    /\ op = "set_breakpoint"
    /\ pc = "done"
    /\ res.kind = "Ok"
    /\ polls = 100
    /\ dhcsr_val = {17}

LinkCorrupted(c) ==
    /\ link_tx[c].pc = "done"
    /\ link_tx[c].res.kind = "Ok"
    /\ link_tx[c].hit # {link_tx[c].addr}

\* C20: when the two clients take the link in turn, each transaction to its
\* end before the other starts, a transaction that returns Ok has read or
\* written its own register: a read returns the value of the register it
\* asked for and a write leaves its value in the register it named. (With
\* accesses interleaved one by one the witness state is reached: a
\* transaction returns Ok with the value of the other transaction's register.)
C20_SerializedTransactionsKeepTheirRegister ==
    link_excl =>
        \A c \in Clients :
            /\ ~ LinkCorrupted(c)
            /\ (link_tx[c].pc = "done" /\ link_tx[c].res.kind = "Ok") =>
                IF link_tx[c].kind = "read"
                THEN link_tx[c].res.val = RegInit(link_tx[c].addr)
                ELSE link_hw.regs[link_tx[c].addr] = link_tx[c].value

C20_Witness ==
    /\ ~ link_excl
    /\ link_tx[1].kind = "read"
    /\ link_tx[2].kind = "read"
    /\ LinkCorrupted(1)
    /\ link_tx[1].res.val = RegInit(link_tx[2].addr)
    /\ link_tx[1].addr = R0
    /\ link_tx[2].addr = PC

====
